---- MODULE Spec2Model ----
(***************************************************************************)
(* A model of the apertus client library (src/apertus): the transport      *)
(* (http.py), the error mapping, the request models (types.py) and the     *)
(* streaming decoder of chat.completions.stream (client.py), for the       *)
(* blocking surface ("sync") and the non-blocking one ("async").           *)
(*                                                                         *)
(* Text is a sequence of tokens.  A token is a whitespace character "sp",  *)
(* the framing prefix "data:", the sentinel "[DONE]", a character that is  *)
(* no JSON ("bad"), or the name of one complete JSON document.  An         *)
(* Optional[T] value is a sequence of length 0 (None) or 1.                *)
(***************************************************************************)
EXTENDS Integers, Sequences, FiniteSets, TLC

VARIABLES environ, args, http,
          status, body, lines, ending, kwargs,
          pc, cursor, events, outcome, conn, sent, asked,
          ret, posted, requests,
          lines2, twin

vars == <<environ, args, http,
          status, body, lines, ending, kwargs, pc, cursor, events, outcome, conn, sent, asked,
          ret, posted, requests, lines2, twin>>

\* What a client is constructed from and the transport object it holds per
\* surface: the value of APERTUS_API_KEY, the constructor's arguments, and
\* the SyncHTTP / AsyncHTTP instance.
config == <<environ, args, http>>

\* The response the server gives: status, body (of a non-streamed or failed
\* response), lines (of a streamed one) and how the line source ends.
server == <<status, body, lines, ending>>

\* The generator of one stream() call per surface.
stream == <<pc, cursor, events, outcome, conn, sent, asked>>

\* A second stream() call on the same client of each surface, made while the
\* first is in use: its generator, and the lines of the response to its POST.
second == <<lines2, twin>>

\* The non-streaming calls per surface: what models.list() and
\* chat.completions.create() ended with, and the payload create() posted.
calls == <<ret, posted>>

\* ------------------------------------------------------------------ bounds

MaxLines == 3

\* The most optional request fields one call passes.
MaxOptional == 2

\* The most lines of a response whose stream the caller may abandon.
MaxLive == 2

\* The most entries of a model list.
MaxModels == 2

\* The most lines of a response drawn from every kind of line.
MaxWide == 2

\* The most lines of a response with frames of unexpected shape.
MaxShape == 2

\* ------------------------------------------------------------------ text

WS == "sp"

None == <<>>

Some(v) == <<v>>

RECURSIVE LStrip(_)
LStrip(t) ==
    IF t # <<>> /\ Head(t) = WS THEN LStrip(Tail(t)) ELSE t

RECURSIVE RStrip(_)
RStrip(t) ==
    IF t # <<>> /\ t[Len(t)] = WS THEN RStrip(SubSeq(t, 1, Len(t) - 1)) ELSE t

\* str.strip()
Strip(t) == RStrip(LStrip(t))

DATA_PREFIX == <<"data:">>

DONE == <<"[DONE]">>

\* str.startswith(p)
StartsWith(t, p) == Len(t) >= Len(p) /\ SubSeq(t, 1, Len(p)) = p

\* text[len(p):]
DropPrefix(t, p) == SubSeq(t, Len(p) + 1, Len(t))

\* ------------------------------------------------------------------ JSON

\* A parsed JSON value: an object with its fields, or a value that is no object.
JObject(f) == [isObject |-> TRUE, fields |-> f]

JScalar == [isObject |-> FALSE, fields |-> <<>>]

\* A choice of a streamed chunk, as the server wrote it.
Choice(hasIndex, delta) == [hasIndex |-> hasIndex, delta |-> delta]

Delta(content) == [content |-> content]

\* The JSON documents the modelled server can put on one line, by token.
\*   c_role    {"choices":[{"index":0,"delta":{"role":"assistant"}}]}
\*   c_he      {"choices":[{"index":0,"delta":{"content":"he"}}]}
\*   c_llo     {"choices":[{"index":0,"delta":{"content":"llo"}}]}
\*   c_mt      {"choices":[{"index":0,"delta":{"content":""}}]}
\*   c_two     {"choices":[{"index":0,"delta":{"content":"a"}},{"index":1,"delta":{"content":"b"}}]}
\*   c_empty   {"choices":[]}
\*   c_nodelta {"choices":[{"index":0,"finish_reason":"stop"}]}
\*   c_noindex {"choices":[{"delta":{"content":"he"}}]}
\*   obj       {"id":"x"}
\*   num       123
\* The bodies of failed responses:
\*   e_key     {"error":"invalid api key"}
\*   e_msg     {"message":"rate limited"}
\*   e_both    {"error":"bad request","message":"see docs"}
\*   e_blank   {"error":"","message":"quota exceeded"}
\*   e_detail  {"detail":"not found"}
\*   e_list    ["boom"]
\* and of successful ones:
\*   ml_ok     {"object":"list","data":[{"id":"m1"},{"id":"m2"}]}
\*   cc_ok     {"id":"abc","object":"chat.completion","created":0,"model":"test",
\*              "choices":[{"index":0,"message":{"role":"assistant","content":"hi"}}]}
JsonDoc(tok) ==
    CASE tok = "c_role"    -> JObject([choices |-> << Choice(TRUE, Some(Delta(None))) >>])
      [] tok = "c_he"      -> JObject([choices |-> << Choice(TRUE, Some(Delta(Some(<<"h", "e">>)))) >>])
      [] tok = "c_llo"     -> JObject([choices |-> << Choice(TRUE, Some(Delta(Some(<<"l", "l", "o">>)))) >>])
      [] tok = "c_mt"      -> JObject([choices |-> << Choice(TRUE, Some(Delta(Some(<<>>)))) >>])
      [] tok = "c_two"     -> JObject([choices |-> << Choice(TRUE, Some(Delta(Some(<<"a">>)))),
                                                     Choice(TRUE, Some(Delta(Some(<<"b">>)))) >>])
      [] tok = "c_empty"   -> JObject([choices |-> <<>>])
      [] tok = "c_nodelta" -> JObject([choices |-> << Choice(TRUE, None) >>])
      [] tok = "c_noindex" -> JObject([choices |-> << Choice(FALSE, Some(Delta(Some(<<"h", "e">>)))) >>])
      [] tok = "obj"       -> JObject([id |-> <<"x">>])
      [] tok = "num"       -> JScalar
      [] tok = "e_key"     -> JObject([error |-> <<"invalid api key">>])
      [] tok = "e_msg"     -> JObject([message |-> <<"rate limited">>])
      [] tok = "e_both"    -> JObject([error |-> <<"bad request">>, message |-> <<"see docs">>])
      [] tok = "e_blank"   -> JObject([error |-> <<>>, message |-> <<"quota exceeded">>])
      [] tok = "e_detail"  -> JObject([detail |-> <<"not found">>])
      [] tok = "e_list"    -> JScalar
      [] tok = "ml_ok"     -> JObject([object |-> <<"list">>,
                                       data |-> << [id |-> <<"m1">>], [id |-> <<"m2">>] >>])
      [] tok = "cc_ok"     -> JObject([id |-> <<"abc">>, object |-> <<"chat.completion">>,
                                       created |-> 0, model |-> <<"test">>,
                                       choices |-> << Choice(TRUE, None) >>])

ChunkTokens == {"c_role", "c_he", "c_llo", "c_mt", "c_two", "c_empty", "c_nodelta",
                "c_noindex", "obj", "num"}

BodyTokens == {"e_key", "e_msg", "e_both", "e_blank", "e_detail", "e_list", "ml_ok", "cc_ok"}

JsonTokens == ChunkTokens \cup BodyTokens

\* json.loads(text): Some(value), or None for json.JSONDecodeError.  A text
\* parses when it is exactly one document; the empty text, a text with a
\* non-JSON character and a document followed by more text do not.
JsonLoads(text) ==
    IF Len(text) = 1 /\ text[1] \in JsonTokens THEN Some(JsonDoc(text[1]))
    ELSE IF Len(text) = 2 /\ text[1] = "json:" THEN Some(text[2])
    ELSE None

\* The text of a JSON document that has no name among the tokens: the
\* document behind the mark "json:".
JsonDumps(v) == <<"json:", v>>

\* ChatCompletionChunk.model_validate(obj) succeeds: obj is an object, has the
\* required field choices, and every choice has the required field index.
ChunkValid(obj) ==
    /\ obj.isObject
    /\ "choices" \in DOMAIN obj.fields
    /\ \A i \in 1..Len(obj.fields.choices) : obj.fields.choices[i].hasIndex

\* The validated chunk (its optional id, object, created and model are not modelled).
ChunkOf(obj) == [choices |-> obj.fields.choices]

StreamEvent(delta, raw) == [delta |-> delta, choice_index |-> 0, raw |-> raw]

\* ------------------------------------------------------------------ errors

\* What a call ended with: nothing yet, a clean end, or a raised error.
NoOutcome == [kind |-> "none", status_code |-> 0, message |-> <<>>, url |-> None, payload |-> None]

CleanEnd == [NoOutcome EXCEPT !.kind = "clean"]

\* httpx raising from the line source (connection reset, read timeout).
TransportError == [NoOutcome EXCEPT !.kind = "TransportError"]

\* pydantic.ValidationError out of model_validate or a model constructor.
ValidationError == [NoOutcome EXCEPT !.kind = "ValidationError"]

\* ApertusAPIError.__init__
ApertusAPIError(status_code, message, url, payload) ==
    [kind |-> "ApertusAPIError", status_code |-> status_code, message |-> message,
     url |-> url, payload |-> payload]

\* json.JSONDecodeError out of r.json() on a body that is no JSON.
JSONDecodeError == [NoOutcome EXCEPT !.kind = "JSONDecodeError"]

\* A call that returned v.
Returned(v) == [NoOutcome EXCEPT !.kind = "returned", !.payload = Some(v)]

MODELS_PATH == <<"/v1/models">>

CHAT_COMPLETIONS_PATH == <<"/v1/chat/completions">>

\* ------------------------------------------------------------------ decoder

Skip == [act |-> "skip", ev |-> None]

Stop == [act |-> "stop", ev |-> None]

Raise == [act |-> "raise", ev |-> None]

Emit(e) == [act |-> "emit", ev |-> Some(e)]

\* SyncProject with the content tested for truth (`and ch0.delta.content`),
\* which takes the empty text for no content.
SyncProjectTruthy(chunk) ==
    IF chunk.choices # <<>>
       /\ chunk.choices[1].delta # None
       /\ chunk.choices[1].delta[1].content # None
       /\ chunk.choices[1].delta[1].content[1] # <<>>
    THEN chunk.choices[1].delta[1].content
    ELSE None

\* The delta of the event: choices[0].delta.content when the chunk has a
\* first choice with a delta whose content is not None.
SyncProject(chunk) ==
    IF chunk.choices # <<>>
       /\ chunk.choices[1].delta # None
       /\ chunk.choices[1].delta[1].content # None
    THEN chunk.choices[1].delta[1].content
    ELSE None

\* SyncDecode with the text after the prefix left untrimmed.
SyncDecodeNoRestrip(line) ==
    LET stripped == Strip(line)
        text == IF StartsWith(stripped, DATA_PREFIX)
                THEN DropPrefix(stripped, DATA_PREFIX)
                ELSE stripped
        obj == JsonLoads(text)
    IN  IF stripped = <<>> THEN Skip
        ELSE IF text = DONE THEN Stop
        ELSE IF obj = None THEN Skip
        ELSE IF ~ChunkValid(obj[1]) THEN Raise
        ELSE Emit(StreamEvent(SyncProject(ChunkOf(obj[1])), ChunkOf(obj[1])))

\* SyncDecode with the sentinel looked for before the prefix is removed.
SyncDecodeSentinelFirst(line) ==
    LET stripped == Strip(line)
        text == IF StartsWith(stripped, DATA_PREFIX)
                THEN Strip(DropPrefix(stripped, DATA_PREFIX))
                ELSE stripped
        obj == JsonLoads(text)
    IN  IF stripped = <<>> THEN Skip
        ELSE IF stripped = DONE THEN Stop
        ELSE IF obj = None THEN Skip
        ELSE IF ~ChunkValid(obj[1]) THEN Raise
        ELSE Emit(StreamEvent(SyncProject(ChunkOf(obj[1])), ChunkOf(obj[1])))

\* SyncDecode with `if not text: break` for the blank line.
SyncDecodeBlankStops(line) ==
    LET stripped == Strip(line)
        text == IF StartsWith(stripped, DATA_PREFIX)
                THEN Strip(DropPrefix(stripped, DATA_PREFIX))
                ELSE stripped
        obj == JsonLoads(text)
    IN  IF stripped = <<>> THEN Stop
        ELSE IF text = DONE THEN Stop
        ELSE IF obj = None THEN Skip
        ELSE IF ~ChunkValid(obj[1]) THEN Raise
        ELSE Emit(StreamEvent(SyncProject(ChunkOf(obj[1])), ChunkOf(obj[1])))

\* SyncDecode with the yield inside `if chunk.choices:`.
SyncDecodeDropsEmpty(line) ==
    LET stripped == Strip(line)
        text == IF StartsWith(stripped, DATA_PREFIX)
                THEN Strip(DropPrefix(stripped, DATA_PREFIX))
                ELSE stripped
        obj == JsonLoads(text)
    IN  IF stripped = <<>> THEN Skip
        ELSE IF text = DONE THEN Stop
        ELSE IF obj = None THEN Skip
        ELSE IF ~ChunkValid(obj[1]) THEN Raise
        ELSE IF ChunkOf(obj[1]).choices = <<>> THEN Skip
        ELSE Emit(StreamEvent(SyncProject(ChunkOf(obj[1])), ChunkOf(obj[1])))

\* SyncDecode with model_validate inside a try that skips the line on any
\* exception.
SyncDecodeSkipsBadShape(line) ==
    LET stripped == Strip(line)
        text == IF StartsWith(stripped, DATA_PREFIX)
                THEN Strip(DropPrefix(stripped, DATA_PREFIX))
                ELSE stripped
        obj == JsonLoads(text)
    IN  IF stripped = <<>> THEN Skip
        ELSE IF text = DONE THEN Stop
        ELSE IF obj = None THEN Skip
        ELSE IF ~ChunkValid(obj[1]) THEN Skip
        ELSE Emit(StreamEvent(SyncProject(ChunkOf(obj[1])), ChunkOf(obj[1])))

\* SyncDecode with json.JSONDecodeError left uncaught.
SyncDecodeFailFast(line) ==
    LET stripped == Strip(line)
        text == IF StartsWith(stripped, DATA_PREFIX)
                THEN Strip(DropPrefix(stripped, DATA_PREFIX))
                ELSE stripped
        obj == JsonLoads(text)
    IN  IF stripped = <<>> THEN Skip
        ELSE IF text = DONE THEN Stop
        ELSE IF obj = None THEN Raise
        ELSE IF ~ChunkValid(obj[1]) THEN Raise
        ELSE Emit(StreamEvent(SyncProject(ChunkOf(obj[1])), ChunkOf(obj[1])))

\* One iteration of the loop body of _ChatCompletions.stream on one line the
\* transport yielded.
SyncDecode(line) ==
    LET stripped == Strip(line)
        text == IF StartsWith(stripped, DATA_PREFIX)
                THEN Strip(DropPrefix(stripped, DATA_PREFIX))
                ELSE stripped
        obj == JsonLoads(text)
    IN  IF stripped = <<>> THEN Skip
        ELSE IF text = DONE THEN Stop
        ELSE IF obj = None THEN Skip
        ELSE IF ~ChunkValid(obj[1]) THEN Raise
        ELSE Emit(StreamEvent(SyncProject(ChunkOf(obj[1])), ChunkOf(obj[1])))

AsyncProject(chunk) ==
    IF chunk.choices # <<>>
       /\ chunk.choices[1].delta # None
       /\ chunk.choices[1].delta[1].content # None
    THEN chunk.choices[1].delta[1].content
    ELSE None

\* AsyncDecode with the text after the prefix left untrimmed.
AsyncDecodeNoRestrip(line) ==
    LET stripped == Strip(line)
        text == IF StartsWith(stripped, DATA_PREFIX)
                THEN DropPrefix(stripped, DATA_PREFIX)
                ELSE stripped
        obj == JsonLoads(text)
    IN  IF stripped = <<>> THEN Skip
        ELSE IF text = DONE THEN Stop
        ELSE IF obj = None THEN Skip
        ELSE IF ~ChunkValid(obj[1]) THEN Raise
        ELSE Emit(StreamEvent(AsyncProject(ChunkOf(obj[1])), ChunkOf(obj[1])))

\* One iteration of the loop body of _AsyncChatCompletions.stream.
AsyncDecode(line) ==
    LET stripped == Strip(line)
        text == IF StartsWith(stripped, DATA_PREFIX)
                THEN Strip(DropPrefix(stripped, DATA_PREFIX))
                ELSE stripped
        obj == JsonLoads(text)
    IN  IF stripped = <<>> THEN Skip
        ELSE IF text = DONE THEN Stop
        ELSE IF obj = None THEN Skip
        ELSE IF ~ChunkValid(obj[1]) THEN Raise
        ELSE Emit(StreamEvent(AsyncProject(ChunkOf(obj[1])), ChunkOf(obj[1])))

\* ------------------------------------------------------------------ requests

RequiredFields == {"model", "messages"}

OptionalFields == {"temperature", "top_p", "n", "stream", "stop", "max_tokens",
                   "presence_penalty", "frequency_penalty", "logit_bias", "user",
                   "tools", "tool_choice"}

RequestFields == RequiredFields \cup OptionalFields

Roles == {"system", "user", "assistant", "tool"}

\* Keyword arguments and message dicts are functions from the keys the caller
\* passed to Optional values: None is an explicit None.
Given(d, k) == k \in DOMAIN d /\ d[k] # None

\* ChatMessage(**m) validates: role is one of the literals, content is there.
MessageValid(m) ==
    /\ Given(m, "role") /\ m["role"][1] \in Roles
    /\ Given(m, "content")

\* ChatMessage.model_dump(exclude_none=True)
DumpMessage(m) ==
    [k \in {f \in {"role", "content", "name"} : Given(m, f)} |-> m[k][1]]

\* ChatCompletionRequest(**kw) validates.
RequestValid(kw) ==
    /\ Given(kw, "model")
    /\ Given(kw, "messages")
    /\ \A i \in 1..Len(kw["messages"][1]) : MessageValid(kw["messages"][1][i])

\* ModelDump without exclude_none: every field is dumped, None as null.
ModelDumpWithNulls(kw) ==
    [k \in RequestFields |->
        IF ~Given(kw, k) THEN "null"
        ELSE IF k = "messages"
        THEN [i \in 1..Len(kw[k][1]) |-> DumpMessage(kw[k][1][i])]
        ELSE kw[k][1]]

\* ChatCompletionRequest(**kw).model_dump(exclude_none=True): the fields that
\* are not None, nested models dumped the same way.
ModelDump(kw) ==
    [k \in {f \in RequestFields : Given(kw, f)} |->
        IF k = "messages"
        THEN [i \in 1..Len(kw[k][1]) |-> DumpMessage(kw[k][1][i])]
        ELSE kw[k][1]]

\* {**kwargs, "stream": True}
WithStream(kw) ==
    [k \in DOMAIN kw \cup {"stream"} |-> IF k = "stream" THEN Some(TRUE) ELSE kw[k]]

\* The payload _ChatCompletions.create builds: Some(payload), or None when
\* the request does not validate.
SyncCreatePayload(kw) ==
    IF RequestValid(kw) THEN Some(ModelDump(kw)) ELSE None

\* The payload _ChatCompletions.stream builds.
SyncStreamPayload(kw) ==
    IF RequestValid(WithStream(kw)) THEN Some(ModelDump(WithStream(kw))) ELSE None

AsyncCreatePayload(kw) ==
    IF RequestValid(kw) THEN Some(ModelDump(kw)) ELSE None

AsyncStreamPayload(kw) ==
    IF RequestValid(WithStream(kw)) THEN Some(ModelDump(WithStream(kw))) ELSE None

\* ------------------------------------------------------------------ transport

\* Is2xx with only the server errors taken for failures.
Is2xxOrClientError(code) == code \div 100 # 5

\* Is2xx for a test against 200 alone (`r.status_code != 200`).
Is200(code) == code = 200

\* status_code // 100 != 2 is the failure test of get, post_json and post_stream.
Is2xx(code) == code \div 100 = 2

\* SyncHTTP.post_stream on a non-2xx status: the body is read and handed to
\* _raise_api_error_object as the message, the request JSON as the payload.
SyncPostStreamError(code, text, json) ==
    ApertusAPIError(code, text, Some(CHAT_COMPLETIONS_PATH), Some(json))

\* AsyncHTTP.post_stream on a non-2xx status.
AsyncPostStreamError(code, text, json) ==
    ApertusAPIError(code, text, Some(CHAT_COMPLETIONS_PATH), Some(json))

\* `if not line: continue` in the line loop of SyncHTTP.post_stream.
SyncTransportYields(line) == line # <<>>

\* The same test in AsyncHTTP.post_stream.
AsyncTransportYields(line) == line # <<>>

\* dict.get(k): Some(value), or None when the key is missing.
DictGet(obj, k) == IF k \in DOMAIN obj.fields THEN Some(obj.fields[k]) ELSE None

\* Python truthiness of dict.get's result: None and "" are false.
Truthy(v) == v # None /\ v[1] # <<>>

\* a or b or c, with c a text.
PyOr(a, b, c) == IF Truthy(a) THEN a[1] ELSE IF Truthy(b) THEN b[1] ELSE c

\* SyncHTTP._raise_api_error: r.json() failing, or yielding a value without
\* .get, is caught by `except Exception`.
SyncRaiseApiError(code, text, url) ==
    LET data == JsonLoads(text)
    IN  IF data = None \/ ~data[1].isObject
        THEN ApertusAPIError(code, text, Some(url), None)
        ELSE ApertusAPIError(code,
                             PyOr(DictGet(data[1], "error"), DictGet(data[1], "message"), text),
                             Some(url), data)

\* AsyncHTTP._raise_api_error
AsyncRaiseApiError(code, text, url) ==
    LET data == JsonLoads(text)
    IN  IF data = None \/ ~data[1].isObject
        THEN ApertusAPIError(code, text, Some(url), None)
        ELSE ApertusAPIError(code,
                             PyOr(DictGet(data[1], "error"), DictGet(data[1], "message"), text),
                             Some(url), data)

\* `return r.json()` of get and post_json.
ReturnJson(text) ==
    IF JsonLoads(text) = None THEN JSONDecodeError ELSE Returned(JsonLoads(text)[1])

\* SyncHTTP.get
SyncGet(path, code, text) ==
    IF ~Is2xx(code) THEN SyncRaiseApiError(code, text, path) ELSE ReturnJson(text)

\* SyncHTTP.post_json
SyncPostJson(path, json, code, text) ==
    IF ~Is2xx(code) THEN SyncRaiseApiError(code, text, path) ELSE ReturnJson(text)

\* AsyncHTTP.get
AsyncGet(path, code, text) ==
    IF ~Is2xx(code) THEN AsyncRaiseApiError(code, text, path) ELSE ReturnJson(text)

\* AsyncHTTP.post_json
AsyncPostJson(path, json, code, text) ==
    IF ~Is2xx(code) THEN AsyncRaiseApiError(code, text, path) ELSE ReturnJson(text)

\* ModelsListValid without the Literal["list"] of APIList.object.
ModelsListValidAnyObject(obj) ==
    /\ obj.isObject
    /\ "object" \in DOMAIN obj.fields
    /\ "data" \in DOMAIN obj.fields
    /\ \A i \in 1..Len(obj.fields.data) : "id" \in DOMAIN obj.fields.data[i]

\* ModelsList.model_validate(obj) succeeds: object is the literal "list" and
\* data is a list of entries that each have an id.
ModelsListValid(obj) ==
    /\ obj.isObject
    /\ "object" \in DOMAIN obj.fields /\ obj.fields.object = <<"list">>
    /\ "data" \in DOMAIN obj.fields
    /\ \A i \in 1..Len(obj.fields.data) : "id" \in DOMAIN obj.fields.data[i]

ModelsListOf(obj) ==
    [object |-> obj.fields.object,
     data |-> [i \in 1..Len(obj.fields.data) |-> [id |-> obj.fields.data[i].id]]]

\* ChatCompletion.model_validate(obj) succeeds.
CompletionValid(obj) ==
    /\ obj.isObject
    /\ {"id", "object", "created", "model", "choices"} \subseteq DOMAIN obj.fields
    /\ obj.fields.object = <<"chat.completion">>
    /\ \A i \in 1..Len(obj.fields.choices) : obj.fields.choices[i].hasIndex

CompletionOf(obj) ==
    [id |-> obj.fields.id, object |-> obj.fields.object, created |-> obj.fields.created,
     model |-> obj.fields.model, choices |-> obj.fields.choices]

\* _Models.list
SyncModelsList(code, text) ==
    LET r == SyncGet(MODELS_PATH, code, text)
    IN  IF r.kind # "returned" THEN r
        ELSE IF ModelsListValid(r.payload[1]) THEN Returned(ModelsListOf(r.payload[1]))
        ELSE ValidationError

\* _AsyncModels.list
AsyncModelsList(code, text) ==
    LET r == AsyncGet(MODELS_PATH, code, text)
    IN  IF r.kind # "returned" THEN r
        ELSE IF ModelsListValid(r.payload[1]) THEN Returned(ModelsListOf(r.payload[1]))
        ELSE ValidationError

\* _ChatCompletions.create once its payload p is built.
SyncCreate(p, code, text) ==
    LET r == SyncPostJson(CHAT_COMPLETIONS_PATH, p, code, text)
    IN  IF r.kind # "returned" THEN r
        ELSE IF CompletionValid(r.payload[1]) THEN Returned(CompletionOf(r.payload[1]))
        ELSE ValidationError

\* _AsyncChatCompletions.create once its payload p is built.
AsyncCreate(p, code, text) ==
    LET r == AsyncPostJson(CHAT_COMPLETIONS_PATH, p, code, text)
    IN  IF r.kind # "returned" THEN r
        ELSE IF CompletionValid(r.payload[1]) THEN Returned(CompletionOf(r.payload[1]))
        ELSE ValidationError

\* SyncSourceEnd with the error of the line source swallowed.
SyncSourceEndSwallowed(e) == CleanEnd

\* How `for line in self._http.post_stream(...)` ends when the response has no
\* further line: the loop ends on exhaustion, and an exception raised by the
\* line source leaves the generator as it is.
SyncSourceEnd(e) == IF e = "raise" THEN TransportError ELSE CleanEnd

\* AsyncSourceEnd with the error of the line source swallowed.
AsyncSourceEndSwallowed(e) == CleanEnd

\* The same for `async for line in self._http.post_stream(...)`.
AsyncSourceEnd(e) == IF e = "raise" THEN TransportError ELSE CleanEnd

\* SyncAfterCall for a stream() that is a plain function: it builds the
\* payload and posts before it returns an iterator.
SyncAfterCallEager == "running"

\* Calling _ChatCompletions.stream, a generator function, runs none of its
\* body: it returns the generator.
SyncAfterCall == "created"

\* Calling _AsyncChatCompletions.stream, an asynchronous generator function.
AsyncAfterCall == "created"

\* SyncResponse for a line iterator that is kept on the client and used by
\* every call.
SyncResponseShared(k, first, other) == first

\* The lines the k-th stream() call on a client iterates: each call runs
\* `self._http.post_stream(...)` in its own frame, which opens the response
\* to its own POST (first for the first call, other for the second).
SyncResponse(k, first, other) == IF k = 1 THEN first ELSE other

\* The same for _AsyncChatCompletions.stream.
AsyncResponse(k, first, other) == IF k = 1 THEN first ELSE other

\* SyncYield for events that are appended to a list the call returns at its
\* end: the loop goes on to the next line.
SyncCollect == "running"

\* `yield StreamEvent(...)`: the generator hands the event to the caller and
\* stands still until the caller asks for the next element.
SyncYield == "suspended"

\* The yield of _AsyncChatCompletions.stream.
AsyncYield == "suspended"

\* SyncStreamExit for a response that is entered without `with` and so is
\* left as it is when the line generator ends.
SyncStreamExitLeak(c) == c

\* `with self._client.stream("POST", ...) as resp:` in SyncHTTP.post_stream:
\* leaving the block, by its end, by an exception or by the finalisation of
\* the generator suspended in it, closes the response.
SyncStreamExit(c) == "closed"

\* `async with self._client.stream("POST", ...) as resp:` in AsyncHTTP.post_stream.
AsyncStreamExit(c) == "closed"

\* ------------------------------------------------------------------ construction

DEFAULT_BASE_URL == <<"https://api.publicai.co">>

\* str.rstrip("/")
RECURSIVE RStripSlash(_)
RStripSlash(t) ==
    IF t # <<>> /\ t[Len(t)] = "/" THEN RStripSlash(SubSeq(t, 1, Len(t) - 1)) ELSE t

\* ResolveKey with the fallback taken only for a missing argument
\* (`api_key if api_key is not None else os.getenv(...)`).
ResolveKeyUnlessNone(api_key, env) == IF api_key # None THEN api_key ELSE env

\* api_key or os.getenv("APERTUS_API_KEY"): the argument when it is a
\* non-empty text, otherwise the variable's value (None when it is unset).
ResolveKey(api_key, env) == IF Truthy(api_key) THEN api_key ELSE env

\* _BaseHTTP._headers
Headers(api_key) ==
    ("Authorization" :> (<<"Bearer", "sp">> \o api_key))
        @@ ("Content-Type" :> <<"application/json">>)
        @@ ("Accept" :> <<"application/json">>)

\* No transport object: the constructor has not run.
NoHTTP == [state |-> "none", api_key |-> None, base_url |-> None, client |-> None]

\* The constructor raised ValueError: no instance exists and no httpx
\* client was created.
ConfigError == [NoHTTP EXCEPT !.state = "ValueError"]

\* _BaseHTTP.__init__: Some(instance) with api_key and base_url set, or None
\* when it raises ValueError.
BaseInit(api_key, base_url, env) ==
    LET key == ResolveKey(api_key, env)
    IN  IF ~Truthy(key) THEN None
        ELSE Some([NoHTTP EXCEPT !.api_key = key, !.base_url = Some(RStripSlash(base_url))])

\* SyncHTTP.__init__: super().__init__, then the httpx.Client with the
\* instance's base URL and headers.
SyncHTTPInit(api_key, base_url, env) ==
    LET b == BaseInit(api_key, base_url, env)
    IN  IF b = None THEN ConfigError
        ELSE [b[1] EXCEPT !.state = "ready",
                          !.client = Some([base_url |-> b[1].base_url[1],
                                           headers |-> Headers(b[1].api_key[1])])]

\* AsyncHTTP.__init__: the same with httpx.AsyncClient.
AsyncHTTPInit(api_key, base_url, env) ==
    LET b == BaseInit(api_key, base_url, env)
    IN  IF b = None THEN ConfigError
        ELSE [b[1] EXCEPT !.state = "ready",
                          !.client = Some([base_url |-> b[1].base_url[1],
                                           headers |-> Headers(b[1].api_key[1])])]

\* Apertus.__init__: `base_url or "https://api.publicai.co"` is handed on.
ApertusInit(a, env) ==
    SyncHTTPInit(a.api_key, IF Truthy(a.base_url) THEN a.base_url[1] ELSE DEFAULT_BASE_URL, env)

\* AsyncApertus.__init__
AsyncApertusInit(a, env) ==
    AsyncHTTPInit(a.api_key, IF Truthy(a.base_url) THEN a.base_url[1] ELSE DEFAULT_BASE_URL, env)

\* The request the httpx client of h issues for path: the client's base URL
\* joined with the path, under the client's headers.
HttpRequest(h, path) == [url |-> h.client[1].base_url \o path, headers |-> h.client[1].headers]

\* ------------------------------------------------------------------ the two surfaces

Modes == {"sync", "async"}

ClientInit(m, a, env) == IF m = "sync" THEN ApertusInit(a, env) ELSE AsyncApertusInit(a, env)

StreamPayload(m, kw) == IF m = "sync" THEN SyncStreamPayload(kw) ELSE AsyncStreamPayload(kw)

PostStreamError(m, code, text, json) ==
    IF m = "sync" THEN SyncPostStreamError(code, text, json)
    ELSE AsyncPostStreamError(code, text, json)

TransportYields(m, line) ==
    IF m = "sync" THEN SyncTransportYields(line) ELSE AsyncTransportYields(line)

ModelsList(m, code, text) ==
    IF m = "sync" THEN SyncModelsList(code, text) ELSE AsyncModelsList(code, text)

CreatePayload(m, kw) == IF m = "sync" THEN SyncCreatePayload(kw) ELSE AsyncCreatePayload(kw)

Create(m, p, code, text) ==
    IF m = "sync" THEN SyncCreate(p, code, text) ELSE AsyncCreate(p, code, text)

Decode(m, line) == IF m = "sync" THEN SyncDecode(line) ELSE AsyncDecode(line)

SourceEnd(m, e) == IF m = "sync" THEN SyncSourceEnd(e) ELSE AsyncSourceEnd(e)

AfterCall(m) == IF m = "sync" THEN SyncAfterCall ELSE AsyncAfterCall

Yield(m) == IF m = "sync" THEN SyncYield ELSE AsyncYield

Response(m, k, first, other) ==
    IF m = "sync" THEN SyncResponse(k, first, other) ELSE AsyncResponse(k, first, other)

StreamExit(m, c) == IF m = "sync" THEN SyncStreamExit(c) ELSE AsyncStreamExit(c)

\* ------------------------------------------------------------------ server behaviour

\* The raw lines a response body can hold.
LineSet ==
    { <<>>,
      <<"sp">>,
      <<"data:", "sp">>,
      <<"data:", "sp", "c_role">>,
      <<"data:", "sp", "c_he">>,
      <<"sp", "c_llo", "sp">>,
      <<"data:", "sp", "[DONE]">>,
      <<"data:", "bad">>,
      <<"data:", "obj">>,
      <<"data:", "c_empty">> }

RECURSIVE SeqsUpTo(_, _)
SeqsUpTo(S, n) ==
    IF n = 0 THEN {<<>>}
    ELSE LET shorter == SeqsUpTo(S, n - 1)
         IN  shorter \cup {Append(q, x) : q \in shorter, x \in S}

\* {"error":"invalid api key"} as the body of a failed response.
StreamErrorBodies == { <<"e_key">> }

StreamStatuses == {200, 401}

Endings == {"eof", "raise"}

\* stream(model="x", messages=[{"role": "user", "content": "hi"}])
BasicKwargs ==
    [k \in {"model", "messages"} |->
        IF k = "model" THEN Some("x")
        ELSE Some(<< [f \in {"role", "content"} |->
                        IF f = "role" THEN Some("user") ELSE Some("hi")] >>)]

\* ------------------------------------------------------------------ stream() as a state machine

\* The generator of one stream() call per surface: "idle" before the call,
\* "created" once stream() returned the generator (no code of its body has
\* run), "running" while a request for the next element is being served,
\* "suspended" at the yield, "done" once it returned or raised; "abandoned"
\* when the caller has stopped asking and still holds it, "released" when
\* the caller has let go of it.

\* A generator that does not exist (yet).
NoGenerator ==
    [pc |-> "idle", cursor |-> 0, events |-> <<>>, outcome |-> NoOutcome, conn |-> "none",
     asked |-> 0]

\* No second call is made.
InitSecond ==
    /\ lines2 = <<>>
    /\ twin = [m \in Modes |-> NoGenerator]

InitStream ==
    /\ pc = [m \in Modes |-> "idle"]
    /\ cursor = [m \in Modes |-> 0]
    /\ events = [m \in Modes |-> <<>>]
    /\ outcome = [m \in Modes |-> NoOutcome]
    /\ conn = [m \in Modes |-> "none"]
    /\ sent = [m \in Modes |-> None]
    /\ asked = [m \in Modes |-> 0]
    /\ InitSecond

InitCalls ==
    /\ ret = [m \in Modes |-> [list |-> NoOutcome, create |-> NoOutcome]]
    /\ posted = [m \in Modes |-> None]
    /\ requests = [m \in Modes |-> [get |-> <<>>, post_json |-> <<>>, post_stream |-> <<>>]]

\* The arguments of the repository's tests: Apertus(api_key="test-key").
TestArgs == [api_key |-> Some(<<"test-key">>), base_url |-> None]

\* Both clients constructed with the key given explicitly.
InitConfig ==
    /\ environ = None
    /\ args = TestArgs
    /\ http = [m \in Modes |-> ClientInit(m, args, environ)]

Init ==
    /\ status \in StreamStatuses
    /\ body \in StreamErrorBodies
    /\ lines \in SeqsUpTo(LineSet, MaxLines)
    /\ ending \in Endings
    /\ kwargs = BasicKwargs
    /\ InitConfig
    /\ InitStream
    /\ InitCalls

\* The caller calls chat.completions.stream(**kwargs).  The async surface is
\* driven once the sync one has finished, against the same server behaviour.
Call(m) ==
    /\ http[m].state = "ready"
    /\ pc[m] = "idle"
    /\ m = "async" => pc["sync"] = "done"
    /\ pc' = [pc EXCEPT ![m] = AfterCall(m)]
    /\ UNCHANGED <<config, server, second, kwargs, calls, requests, cursor, events, outcome, conn, sent, asked>>

\* The caller asks for the next element (next(gen), or awaiting __anext__).
Request(m) ==
    /\ pc[m] \in {"created", "suspended"}
    /\ pc' = [pc EXCEPT ![m] = "running"]
    /\ asked' = [asked EXCEPT ![m] = @ + 1]
    /\ UNCHANGED <<config, server, second, kwargs, calls, requests, cursor, events, outcome, conn, sent>>

\* The start of the generator body: the payload is built, the streaming POST
\* is issued and post_stream tests the status.
Open(m) ==
    /\ pc[m] = "running"
    /\ conn[m] = "none"
    /\ LET p == StreamPayload(m, kwargs)
       IN  IF p = None
           THEN /\ outcome' = [outcome EXCEPT ![m] = ValidationError]
                /\ pc' = [pc EXCEPT ![m] = "done"]
                /\ UNCHANGED <<conn, sent, requests>>
           ELSE /\ sent' = [sent EXCEPT ![m] = p]
                /\ requests' = [requests EXCEPT ![m].post_stream =
                                    Append(@, HttpRequest(http[m], CHAT_COMPLETIONS_PATH))]
                /\ IF Is2xx(status)
                   THEN /\ conn' = [conn EXCEPT ![m] = "open"]
                        /\ UNCHANGED <<pc, outcome>>
                   ELSE /\ conn' = [conn EXCEPT ![m] = StreamExit(m, "open")]
                        /\ outcome' = [outcome EXCEPT ![m] = PostStreamError(m, status, body, p[1])]
                        /\ pc' = [pc EXCEPT ![m] = "done"]
    /\ UNCHANGED <<config, server, second, kwargs, calls, cursor, events, asked>>

\* One turn of the line loop: the next raw line is pulled from the response
\* and, unless the transport drops it, decoded.
Step(m) ==
    /\ pc[m] = "running"
    /\ conn[m] = "open"
    /\ IF cursor[m] = Len(lines)
       THEN /\ outcome' = [outcome EXCEPT ![m] = SourceEnd(m, ending)]
            /\ pc' = [pc EXCEPT ![m] = "done"]
            /\ conn' = [conn EXCEPT ![m] = StreamExit(m, conn[m])]
            /\ UNCHANGED <<cursor, events>>
       ELSE LET line == lines[cursor[m] + 1]
                d == Decode(m, line)
            IN  /\ cursor' = [cursor EXCEPT ![m] = @ + 1]
                /\ IF ~TransportYields(m, line) \/ d.act = "skip"
                   THEN UNCHANGED <<pc, events, outcome, conn>>
                   ELSE IF d.act = "emit"
                   THEN /\ events' = [events EXCEPT ![m] = Append(@, d.ev[1])]
                        /\ pc' = [pc EXCEPT ![m] = Yield(m)]
                        /\ UNCHANGED <<outcome, conn>>
                   ELSE IF d.act = "stop"
                   THEN /\ outcome' = [outcome EXCEPT ![m] = CleanEnd]
                        /\ pc' = [pc EXCEPT ![m] = "done"]
                        /\ UNCHANGED <<events, conn>>
                   ELSE /\ outcome' = [outcome EXCEPT ![m] = ValidationError]
                        /\ pc' = [pc EXCEPT ![m] = "done"]
                        /\ UNCHANGED <<events, conn>>
    /\ UNCHANGED <<config, server, second, kwargs, calls, requests, sent, asked>>

\* The line generator is finalised at its yield once nothing refers to it:
\* the decoder left its loop (sentinel, validation error) or the decoder's
\* own generator was released.  Its `with` block exits.
Finalize(m) ==
    /\ pc[m] \in {"done", "released"}
    /\ conn[m] = "open"
    /\ conn' = [conn EXCEPT ![m] = StreamExit(m, conn[m])]
    /\ UNCHANGED <<config, server, second, kwargs, calls, requests, pc, cursor, events, outcome, sent, asked>>

Next ==
    \E m \in Modes : Call(m) \/ Request(m) \/ Open(m) \/ Step(m) \/ Finalize(m)

Spec == Init /\ [][Next]_vars

\* ------------------------------------------------------------------ lines of every kind

\* The lines of LineSet and more: blank lines and lines of the prefix alone
\* with and without whitespace around it, and chunks with an empty content,
\* with two choices, with a choice without delta and with no choice.
WideLineSet ==
    { <<>>,
      <<"sp">>,
      <<"sp", "sp">>,
      <<"data:">>,
      <<"data:", "sp">>,
      <<"sp", "data:">>,
      <<"sp", "data:", "sp">>,
      <<"data:", "sp", "c_role">>,
      <<"data:", "sp", "c_he">>,
      <<"data:", "c_mt">>,
      <<"data:", "sp", "c_two">>,
      <<"data:", "sp", "c_nodelta">>,
      <<"data:", "sp", "c_empty">>,
      <<"data:", "sp", "[DONE]">>,
      <<"data:", "bad">>,
      <<"data:", "obj">> }

InitWide ==
    /\ status = 200
    /\ body = <<>>
    /\ lines \in SeqsUpTo(WideLineSet, MaxWide)
    /\ ending \in Endings
    /\ kwargs = BasicKwargs
    /\ InitConfig
    /\ InitStream
    /\ InitCalls

\* The streams of both surfaces on short responses of every kind of line.
SpecWide == InitWide /\ [][Next]_vars

\* ------------------------------------------------------------------ two streams on one client

\* The first stream() call, in a run with a second one: the async surface is
\* driven once both streams of the sync one have finished.
FirstCall(m) ==
    /\ m = "async" => twin["sync"].pc = "done"
    /\ Call(m)

\* The caller calls stream() a second time on the same client, after the first.
TwinCall(m) ==
    /\ http[m].state = "ready"
    /\ pc[m] # "idle"
    /\ twin[m].pc = "idle"
    /\ twin' = [twin EXCEPT ![m].pc = AfterCall(m)]
    /\ UNCHANGED <<config, server, lines2, kwargs, stream, calls, requests>>

\* The caller asks the second generator for its next element.
TwinRequest(m) ==
    /\ twin[m].pc \in {"created", "suspended"}
    /\ twin' = [twin EXCEPT ![m].pc = "running", ![m].asked = @ + 1]
    /\ UNCHANGED <<config, server, lines2, kwargs, stream, calls, requests>>

\* The start of the second generator's body: its own POST.
TwinOpen(m) ==
    /\ twin[m].pc = "running"
    /\ twin[m].conn = "none"
    /\ LET p == StreamPayload(m, kwargs)
       IN  IF p = None
           THEN /\ twin' = [twin EXCEPT ![m].outcome = ValidationError, ![m].pc = "done"]
                /\ UNCHANGED requests
           ELSE /\ requests' = [requests EXCEPT ![m].post_stream =
                                    Append(@, HttpRequest(http[m], CHAT_COMPLETIONS_PATH))]
                /\ IF Is2xx(status)
                   THEN twin' = [twin EXCEPT ![m].conn = "open"]
                   ELSE twin' = [twin EXCEPT ![m].conn = StreamExit(m, "open"),
                                             ![m].outcome = PostStreamError(m, status, body, p[1]),
                                             ![m].pc = "done"]
    /\ UNCHANGED <<config, server, lines2, kwargs, stream, calls>>

\* One turn of the second generator's line loop, on the lines of its response.
TwinStep(m) ==
    /\ twin[m].pc = "running"
    /\ twin[m].conn = "open"
    /\ LET g == twin[m]
           resp == Response(m, 2, lines, lines2)
       IN  IF g.cursor = Len(resp)
           THEN twin' = [twin EXCEPT ![m] = [g EXCEPT !.outcome = SourceEnd(m, ending),
                                                      !.pc = "done",
                                                      !.conn = StreamExit(m, g.conn)]]
           ELSE LET line == resp[g.cursor + 1]
                    d == Decode(m, line)
                    h == [g EXCEPT !.cursor = @ + 1]
                IN  twin' = [twin EXCEPT ![m] =
                        IF ~TransportYields(m, line) \/ d.act = "skip" THEN h
                        ELSE IF d.act = "emit"
                        THEN [h EXCEPT !.events = Append(@, d.ev[1]), !.pc = Yield(m)]
                        ELSE IF d.act = "stop"
                        THEN [h EXCEPT !.outcome = CleanEnd, !.pc = "done"]
                        ELSE [h EXCEPT !.outcome = ValidationError, !.pc = "done"]]
    /\ UNCHANGED <<config, server, lines2, kwargs, stream, calls, requests>>

\* The second generator's line generator is finalised.
TwinFinalize(m) ==
    /\ twin[m].pc = "done"
    /\ twin[m].conn = "open"
    /\ twin' = [twin EXCEPT ![m].conn = StreamExit(m, "open")]
    /\ UNCHANGED <<config, server, lines2, kwargs, stream, calls, requests>>

\* The responses the two calls are answered with.
TwoResponses ==
    { <<>>,
      << <<"data:", "sp", "c_he">>, <<"sp", "c_llo", "sp">>, <<"data:", "sp", "[DONE]">> >>,
      << <<"data:", "sp", "c_role">>, <<"data:", "bad">>, <<"data:", "sp", "c_he">> >>,
      << <<"sp", "c_llo", "sp">>, <<"data:", "obj">>, <<"data:", "sp", "c_he">> >>,
      << <<"data:", "sp", "[DONE]">>, <<"data:", "sp", "c_he">> >> }

InitTwo ==
    /\ status = 200
    /\ body = <<>>
    /\ lines \in TwoResponses
    /\ lines2 \in TwoResponses
    /\ ending \in Endings
    /\ kwargs = BasicKwargs
    /\ InitConfig
    /\ pc = [m \in Modes |-> "idle"]
    /\ cursor = [m \in Modes |-> 0]
    /\ events = [m \in Modes |-> <<>>]
    /\ outcome = [m \in Modes |-> NoOutcome]
    /\ conn = [m \in Modes |-> "none"]
    /\ sent = [m \in Modes |-> None]
    /\ asked = [m \in Modes |-> 0]
    /\ twin = [m \in Modes |-> NoGenerator]
    /\ InitCalls

NextTwo ==
    \E m \in Modes :
        \/ FirstCall(m) \/ Request(m) \/ Open(m) \/ Step(m) \/ Finalize(m)
        \/ TwinCall(m) \/ TwinRequest(m) \/ TwinOpen(m) \/ TwinStep(m) \/ TwinFinalize(m)

\* Two stream() calls on the client of each surface, their element requests
\* in any interleaving.
SpecTwo == InitTwo /\ [][NextTwo]_vars

\* ------------------------------------------------------------------ abandoned streams

\* The caller stops asking for elements after an event (it leaves its loop)
\* and keeps the generator object: stream() has no close of its own, and the
\* generator stays suspended at its yield.
Abandon(m) ==
    /\ pc[m] = "suspended"
    /\ pc' = [pc EXCEPT ![m] = "abandoned"]
    /\ UNCHANGED <<config, server, second, kwargs, calls, requests, cursor, events, outcome, conn, sent, asked>>

\* The caller lets go of the abandoned generator: nothing refers to it.
Release(m) ==
    /\ pc[m] = "abandoned"
    /\ pc' = [pc EXCEPT ![m] = "released"]
    /\ UNCHANGED <<config, server, second, kwargs, calls, requests, cursor, events, outcome, conn, sent, asked>>

\* The lines of the responses the abandoned and the finishing streams read.
LiveLineSet ==
    { <<"data:", "sp", "c_he">>,
      <<"data:", "sp", "[DONE]">>,
      <<"data:", "bad">>,
      <<"data:", "obj">> }

InitLive ==
    /\ status \in StreamStatuses
    /\ body \in StreamErrorBodies
    /\ lines \in SeqsUpTo(LiveLineSet, MaxLive)
    /\ ending \in Endings
    /\ kwargs = BasicKwargs
    /\ InitConfig
    /\ InitStream
    /\ InitCalls

NextLive ==
    \E m \in Modes :
        Call(m) \/ Request(m) \/ Open(m) \/ Step(m) \/ Finalize(m) \/ Abandon(m) \/ Release(m)

\* What runs without the caller: a request for the next element is served
\* up to the generator's next yield, return or raise, and a generator that
\* nothing refers to is finalised (reference counting for the blocking
\* surface, the event loop's asynchronous-generator hook for the other).
\* Asking for an element, leaving the loop and letting go of the generator
\* are the caller's choice.
Fairness ==
    \A m \in Modes : WF_vars(Open(m)) /\ WF_vars(Step(m)) /\ WF_vars(Finalize(m))

\* The streams with a caller that may stop asking.
SpecLive == InitLive /\ [][NextLive]_vars /\ Fairness

\* ------------------------------------------------------------------ the non-streaming calls

\* The caller calls models.list().
ListModels(m) ==
    /\ http[m].state = "ready"
    /\ ret[m].list.kind = "none"
    /\ requests' = [requests EXCEPT ![m].get = Append(@, HttpRequest(http[m], MODELS_PATH))]
    /\ ret' = [ret EXCEPT ![m].list = ModelsList(m, status, body)]
    /\ UNCHANGED <<config, server, second, kwargs, stream, posted>>

\* The caller calls chat.completions.create(**kwargs): the payload is built
\* and validated, then posted.
CreateCompletion(m) ==
    /\ http[m].state = "ready"
    /\ ret[m].create.kind = "none"
    /\ LET p == CreatePayload(m, kwargs)
       IN  IF p = None
           THEN /\ ret' = [ret EXCEPT ![m].create = ValidationError]
                /\ UNCHANGED <<posted, requests>>
           ELSE /\ posted' = [posted EXCEPT ![m] = p]
                /\ requests' = [requests EXCEPT ![m].post_json =
                                    Append(@, HttpRequest(http[m], CHAT_COMPLETIONS_PATH))]
                /\ ret' = [ret EXCEPT ![m].create = Create(m, p[1], status, body)]
    /\ UNCHANGED <<config, server, second, kwargs, stream>>

\* ------------------------------------------------------------------ constructing the clients

\* Apertus(api_key, base_url=...) resp. AsyncApertus(...) is called.
Construct(m) ==
    /\ http[m].state = "none"
    /\ http' = [http EXCEPT ![m] = ClientInit(m, args, environ)]
    /\ UNCHANGED <<environ, args, server, second, kwargs, stream, calls, requests>>

\* A key that is missing, empty or a token, as the argument and as the
\* value of APERTUS_API_KEY.
ArgKeys == {None, Some(<<>>), Some(<<"arg-key">>)}

EnvKeys == {None, Some(<<>>), Some(<<"env-key">>)}

BaseUrls == {None, Some(<<"https://host">>), Some(<<"https://host", "/">>)}

InitNew ==
    /\ environ \in EnvKeys
    /\ args \in [api_key : ArgKeys, base_url : BaseUrls]
    /\ http = [m \in Modes |-> NoHTTP]
    /\ status = 200
    /\ body = <<"ml_ok">>
    /\ lines = <<>>
    /\ ending = "eof"
    /\ kwargs = BasicKwargs
    /\ InitStream
    /\ InitCalls

NextNew == \E m \in Modes : Construct(m) \/ ListModels(m)

\* Both clients constructed from one environment and one set of arguments,
\* and the first request of each.
SpecNew == InitNew /\ [][NextNew]_vars

\* ------------------------------------------------------------------ model lists

\* The entries of a model list: with an id, with an id and more, without id.
ModelEntries ==
    { [id |-> <<"m1">>],
      [id |-> <<"m2">>, owned_by |-> <<"org">>],
      [owned_by |-> <<"org">>] }

\* The bodies answered to GET /v1/models: data of up to MaxModels entries
\* under object "list", under another object, and without object.
ListBodies ==
    { JsonDumps(JObject([object |-> o, data |-> dd])) :
        o \in {<<"list">>, <<"models">>}, dd \in SeqsUpTo(ModelEntries, MaxModels) }
    \cup { JsonDumps(JObject([data |-> dd])) : dd \in SeqsUpTo(ModelEntries, MaxModels) }

InitList ==
    /\ status \in {200, 206}
    /\ body \in ListBodies
    /\ lines = <<>>
    /\ ending = "eof"
    /\ kwargs = BasicKwargs
    /\ InitConfig
    /\ InitStream
    /\ InitCalls

NextList == \E m \in Modes : ListModels(m)

\* models.list() of both surfaces on one successful response.
SpecList == InitList /\ [][NextList]_vars

\* ------------------------------------------------------------------ statuses of every class

\* Statuses at and next to the borders of 2xx, and of every class.
AllStatuses == {100, 199, 200, 204, 299, 300, 302, 400, 404, 500, 503}

AnyBodies == { <<"cc_ok">>, <<"ml_ok">>, <<"e_key">>, <<"<html>">> }

InitStatus ==
    /\ status \in AllStatuses
    /\ body \in AnyBodies
    /\ lines \in SeqsUpTo({<<"data:", "sp", "c_he">>}, 1)
    /\ ending = "eof"
    /\ kwargs = BasicKwargs
    /\ InitConfig
    /\ InitStream
    /\ InitCalls

NextStatus ==
    \E m \in Modes :
        ListModels(m) \/ CreateCompletion(m) \/ Call(m) \/ Request(m) \/ Open(m) \/ Step(m)

\* Every call of both surfaces against one response of any status.
SpecStatus == InitStatus /\ [][NextStatus]_vars

\* ------------------------------------------------------------------ bodies and lines of unexpected shape

\* The fields ChatCompletion requires.
CompletionRequired == {"id", "object", "created", "model", "choices"}

\* The object obj without its field f.
Without(obj, f) == JObject([k \in (DOMAIN obj.fields) \ {f} |-> obj.fields[k]])

\* Successful bodies: the completion and the model list of the tests, the
\* completion with one required field missing, an object with an id only, a
\* list without data and a list with an entry without id.
ShapeBodies ==
    { <<"cc_ok">>, <<"ml_ok">>, <<"obj">> }
    \cup { JsonDumps(Without(JsonDoc("cc_ok"), f)) : f \in CompletionRequired }
    \cup { JsonDumps(Without(JsonDoc("ml_ok"), "data")),
           JsonDumps(JObject([object |-> <<"list">>, data |-> << [owned_by |-> <<"org">>] >>])) }

\* Valid frames, an object without choices and a chunk whose choice has no index.
ShapeLineSet ==
    { <<"data:", "sp", "c_he">>,
      <<"sp", "c_llo", "sp">>,
      <<"data:", "obj">>,
      <<"data:", "sp", "c_noindex">> }

InitShape ==
    /\ status = 200
    /\ body \in ShapeBodies
    /\ lines \in SeqsUpTo(ShapeLineSet, MaxShape)
    /\ ending = "eof"
    /\ kwargs = BasicKwargs
    /\ InitConfig
    /\ InitStream
    /\ InitCalls

NextShape ==
    \E m \in Modes :
        \/ ListModels(m) \/ CreateCompletion(m)
        \/ Call(m) \/ Request(m) \/ Open(m) \/ Step(m) \/ Finalize(m)

\* Every call of both surfaces on successful responses of expected and of
\* unexpected shape.
SpecShape == InitShape /\ [][NextShape]_vars

\* ------------------------------------------------------------------ failed responses

\* The bodies a failed response can carry: the JSON bodies of JsonDoc, an
\* HTML error page and the empty body.
ErrorBodies ==
    { <<"e_key">>, <<"e_msg">>, <<"e_both">>, <<"e_blank">>, <<"e_detail">>, <<"e_list">>,
      <<"<html>">>, <<>> }

ErrorStatuses == {199, 302, 400, 401, 404, 500, 503}

InitErr ==
    /\ status \in ErrorStatuses
    /\ body \in ErrorBodies
    /\ lines \in SeqsUpTo({<<"data:", "sp", "c_he">>}, 1)
    /\ ending = "eof"
    /\ kwargs = BasicKwargs
    /\ InitConfig
    /\ InitStream
    /\ InitCalls

NextErr ==
    \E m \in Modes : ListModels(m) \/ CreateCompletion(m) \/ Call(m) \/ Request(m) \/ Open(m)

\* Every call of both surfaces against one failed response.
SpecErr == InitErr /\ [][NextErr]_vars

\* ------------------------------------------------------------------ request building

\* Put(kw, f, a): the keyword arguments kw and f=a.
Put(kw, f, a) == [k \in DOMAIN kw \cup {f} |-> IF k = f THEN a ELSE kw[k]]

PlainMessage == [f \in {"role", "content"} |-> IF f = "role" THEN Some("user") ELSE Some("hi")]

\* A value of the declared type for each request field.
FieldValues(f) ==
    CASE f = "model" -> {"x"}
      [] f = "messages" -> { << PlainMessage >>,
                             << Put(PlainMessage, "name", Some("bob")),
                                Put(PlainMessage, "name", None) >> }
      [] f = "stream" -> {TRUE, FALSE}
      [] f \in {"n", "max_tokens"} -> {16}
      [] f \in {"stop", "user", "tool_choice"} -> {"s"}
      [] f = "logit_bias" -> {[t \in {"50256"} |-> "-100"]}
      [] f = "tools" -> {<< [type |-> "function"] >>}
      [] OTHER -> {"0.5"}

\* What a caller can pass for a field: an explicit None, or a value.
FieldArgs(f) == {None} \cup {Some(v) : v \in FieldValues(f)}

\* The keyword arguments that pass exactly the fields K.
RECURSIVE KwargsOver(_)
KwargsOver(K) ==
    IF K = {} THEN {[k \in {} |-> None]}
    ELSE LET f == CHOOSE x \in K : TRUE
         IN  {Put(kw, f, a) : kw \in KwargsOver(K \ {f}), a \in FieldArgs(f)}

\* The calls the model explores: any of the required fields, and at most
\* MaxOptional optional ones.
KwargsSet ==
    UNION { KwargsOver(R \cup O) :
              R \in SUBSET RequiredFields,
              O \in {o \in SUBSET OptionalFields : Cardinality(o) <= MaxOptional} }

\* The server answers every request of the call with a completion: cc_ok to the
\* POST of create(), the sentinel alone to the POST of stream().
InitReq ==
    /\ status = 200
    /\ body = <<"cc_ok">>
    /\ lines = << <<"data:", "sp", "[DONE]">> >>
    /\ ending = "eof"
    /\ kwargs \in KwargsSet
    /\ InitConfig
    /\ InitStream
    /\ InitCalls

NextReq ==
    \E m \in Modes :
        CreateCompletion(m) \/ Call(m) \/ Request(m) \/ Open(m) \/ Step(m) \/ Finalize(m)

\* create() and stream() of both surfaces on one set of keyword arguments.
SpecReq == InitReq /\ [][NextReq]_vars

\* ------------------------------------------------------------------ streams not yet iterated

\* model and messages, each passed, passed as None or left out.
LazyKwargs == UNION { KwargsOver(R) : R \in SUBSET RequiredFields }

LazyResponses ==
    { <<>>,
      << <<"data:", "sp", "c_he">>, <<"data:", "sp", "[DONE]">> >> }

InitLazy ==
    /\ status \in StreamStatuses
    /\ body \in StreamErrorBodies
    /\ lines \in LazyResponses
    /\ ending = "eof"
    /\ kwargs \in LazyKwargs
    /\ InitConfig
    /\ InitStream
    /\ InitCalls

\* stream() of both surfaces, called with valid and invalid arguments and
\* answered with a 2xx or another status.
SpecLazy == InitLazy /\ [][Next]_vars

\* ------------------------------------------------------------------ properties of stream()

\* The payload of a raw line: trimmed, the optional prefix removed, trimmed again.
FramePayload(line) ==
    LET t == Strip(line)
    IN  IF StartsWith(t, DATA_PREFIX) THEN Strip(DropPrefix(t, DATA_PREFIX)) ELSE t

IsSentinel(line) == FramePayload(line) = DONE

\* A valid frame: its payload is a JSON document that conforms to ChatCompletionChunk.
IsValidFrame(line) ==
    /\ JsonLoads(FramePayload(line)) # None
    /\ ChunkValid(JsonLoads(FramePayload(line))[1])

\* A malformed frame: its payload is no JSON text (and not the sentinel).
IsMalformed(line) == ~IsSentinel(line) /\ JsonLoads(FramePayload(line)) = None

\* A frame of unexpected shape: JSON, but no ChatCompletionChunk.
IsBadShape(line) ==
    /\ JsonLoads(FramePayload(line)) # None
    /\ ~ChunkValid(JsonLoads(FramePayload(line))[1])

FrameChunk(line) == ChunkOf(JsonLoads(FramePayload(line))[1])

\* delta.content of the first choice of a valid frame, "" when there is none.
FrameContent(line) ==
    LET c == FrameChunk(line).choices
    IN  IF c # <<>> /\ c[1].delta # None /\ c[1].delta[1].content # None
        THEN c[1].delta[1].content[1]
        ELSE <<>>

DeltaText(e) == IF e.delta = None THEN <<>> ELSE e.delta[1]

RECURSIVE ConcatAll(_)
ConcatAll(ss) == IF ss = <<>> THEN <<>> ELSE Head(ss) \o ConcatAll(Tail(ss))

\* The valid frames among the first n lines, in order.
ValidFrames(n) == SelectSeq(SubSeq(lines, 1, n), IsValidFrame)

\* The events are those of the valid frames among the first n lines, in order.
EventsAreFramesOf(m, n) ==
    LET F == ValidFrames(n)
    IN  /\ Len(events[m]) = Len(F)
        /\ \A k \in 1..Len(F) : events[m][k].raw = FrameChunk(F[k])
        /\ ConcatAll([k \in 1..Len(events[m]) |-> DeltaText(events[m][k])])
             = ConcatAll([k \in 1..Len(F) |-> FrameContent(F[k])])

Success == status \in 200..299

\* The first n-1 lines are valid or malformed frames and line n is the sentinel.
FramesThenSentinel(n) ==
    /\ n \in 1..Len(lines)
    /\ IsSentinel(lines[n])
    /\ \A j \in 1..(n - 1) : IsValidFrame(lines[j]) \/ IsMalformed(lines[j])

\* C1: when the lines are N valid frames and M malformed frames in any
\* positions and then the sentinel, the finished stream has yielded exactly
\* the N events of the valid frames, in their order (so the concatenated
\* deltas are the concatenated delta.content of the frames), and ended cleanly.
C1_ValidFramesInOrder ==
    \A m \in Modes : \A n \in 1..Len(lines) :
        (pc[m] = "done" /\ Success /\ FramesThenSentinel(n))
            => (EventsAreFramesOf(m, n - 1) /\ outcome[m] = CleanEnd)

C1_Witness ==
    /\ pc["sync"] = "done" /\ Success /\ FramesThenSentinel(3)
    /\ IsValidFrame(lines[1]) /\ FrameContent(lines[1]) # <<>>
    /\ IsMalformed(lines[2]) /\ lines[2] # <<>>
    /\ Len(events["sync"]) = 1

\* The line read last is the sentinel.
SentinelRead(m) == cursor[m] >= 1 /\ IsSentinel(lines[cursor[m]])

\* C2: once a line whose payload is [DONE] has been read, the stream has
\* ended cleanly with the events of the lines before it only, and from then
\* on no line is pulled and no event is emitted.
C2_StopsAtSentinel ==
    /\ [](\A m \in Modes : SentinelRead(m) =>
            /\ pc[m] = "done"
            /\ outcome[m] = CleanEnd
            /\ EventsAreFramesOf(m, cursor[m] - 1))
    /\ [][\A m \in Modes : SentinelRead(m) =>
            /\ cursor'[m] = cursor[m]
            /\ events'[m] = events[m]
            /\ outcome'[m] = outcome[m]]_vars

C2_Witness ==
    /\ SentinelRead("sync")
    /\ cursor["sync"] < Len(lines)
    /\ IsValidFrame(lines[Len(lines)])
    /\ conn["sync"] = "closed"
    /\ Len(events["sync"]) = 1

\* C3: when the line source raises after lines that are valid or malformed
\* frames, the caller has received exactly the events of the k valid frames
\* and then the transport's error, and nothing is emitted after the error.
C3_TransportErrorPropagates ==
    /\ [](\A m \in Modes :
            (/\ pc[m] = "done" /\ Success /\ ending = "raise"
             /\ \A j \in 1..Len(lines) : IsValidFrame(lines[j]) \/ IsMalformed(lines[j]))
            => (outcome[m] = TransportError /\ EventsAreFramesOf(m, Len(lines))))
    /\ [][\A m \in Modes : outcome[m].kind = "TransportError" =>
            (events'[m] = events[m] /\ outcome'[m] = outcome[m])]_vars

C3_Witness ==
    /\ pc["sync"] = "done"
    /\ outcome["sync"] = TransportError
    /\ Len(events["sync"]) = 2
    /\ Len(lines) = 3

\* C4 as claimed: a line whose payload does not decode as a JSON object
\* conforming to ChatCompletionChunk never makes stream() raise.
C4_DecodeAnomalyNeverPropagates ==
    \A m \in Modes :
        (cursor[m] >= 1 /\ ~IsValidFrame(lines[cursor[m]]) /\ ~IsSentinel(lines[cursor[m]]))
            => outcome[m].kind # "ValidationError"

\* C4 as amended: reading a line whose payload is no JSON text raises
\* nothing, emits nothing and leaves the stream reading on; reading a line
\* whose payload is JSON but no ChatCompletionChunk ends the stream with a
\* validation error and no event for the line.
C4_MalformedSkippedBadShapeRaises ==
    [][\A m \in Modes : cursor'[m] = cursor[m] + 1 =>
          /\ IsMalformed(lines[cursor'[m]]) =>
                /\ pc'[m] = "running"
                /\ events'[m] = events[m]
                /\ outcome'[m] = NoOutcome
                /\ conn'[m] = "open"
          /\ IsBadShape(lines[cursor'[m]]) =>
                /\ pc'[m] = "done"
                /\ events'[m] = events[m]
                /\ outcome'[m] = ValidationError]_vars

C4_Witness ==
    /\ pc["sync"] = "suspended"
    /\ cursor["sync"] = 2
    /\ IsMalformed(lines[1]) /\ lines[1] # <<>> /\ Strip(lines[1]) # <<>>
    /\ IsValidFrame(lines[2])
    /\ Len(events["sync"]) = 1

\* C7: on a non-2xx status of the streaming POST no line is pulled and no
\* event is ever emitted, and the stream ends with the ApertusAPIError that
\* carries the status and the whole body.
C7_StatusErrorBeforeAnyLine ==
    \A m \in Modes : ~Success =>
        /\ events[m] = <<>>
        /\ cursor[m] = 0
        /\ pc[m] \in {"idle", "created", "running", "done"}
        /\ pc[m] = "done" =>
              /\ outcome[m].kind = "ApertusAPIError"
              /\ outcome[m].status_code = status
              /\ outcome[m].message = body

C7_Witness ==
    /\ ~Success
    /\ pc["sync"] = "done"
    /\ outcome["sync"].kind = "ApertusAPIError"
    /\ Len(lines) >= 1 /\ IsValidFrame(lines[1])

\* C10: for the same lines, ending and status, the finished blocking stream
\* and the finished non-blocking stream have yielded the same events and
\* ended with the same outcome.
C10_SyncAsyncAgree ==
    (pc["sync"] = "done" /\ pc["async"] = "done")
        => (events["sync"] = events["async"] /\ outcome["sync"] = outcome["async"])

C10_Witness ==
    /\ pc["sync"] = "done" /\ pc["async"] = "done"
    /\ Len(events["async"]) = 2
    /\ outcome["async"] = TransportError

\* ------------------------------------------------------------------ properties of the error mapping

ParsedBody == JsonLoads(body)

BodyHasKey(k) ==
    ParsedBody # None /\ ParsedBody[1].isObject /\ k \in DOMAIN ParsedBody[1].fields

\* The message the mapping is said to choose for the body.
ClaimedMessage ==
    IF BodyHasKey("error") THEN ParsedBody[1].fields["error"]
    ELSE IF BodyHasKey("message") THEN ParsedBody[1].fields["message"]
    ELSE body

\* An error raised for the failed response follows the mapping.
FollowsMapping(r) ==
    /\ r.kind = "ApertusAPIError"
    /\ r.status_code = status
    /\ r.message = ClaimedMessage
    /\ r.payload = ParsedBody

\* C5: the error raised for a non-2xx response carries the status code, the
\* message payload.error if that key is present, else payload.message if
\* present, else the raw body, and the parsed body as payload (none when the
\* body does not parse), whichever call met the response.
C5_ErrorMessageRule ==
    ~Success => \A m \in Modes :
        /\ ret[m].list.kind # "none" => FollowsMapping(ret[m].list)
        /\ ret[m].create.kind # "none" => FollowsMapping(ret[m].create)
        /\ pc[m] = "done" => FollowsMapping(outcome[m])

\* C6: for one status and one body, the error stream() raises before any
\* line and the error create() raises have the same status code, message
\* and payload.
C6_SameMappingOnBothPaths ==
    \A m \in Modes :
        (outcome[m].kind = "ApertusAPIError" /\ ret[m].create.kind = "ApertusAPIError")
            => /\ outcome[m].status_code = ret[m].create.status_code
               /\ outcome[m].message = ret[m].create.message
               /\ outcome[m].payload = ret[m].create.payload

\* ------------------------------------------------------------------ properties of the request payload

\* The payloads that have been sent: by create() and by stream().
CreateSent(m) == posted[m] # None

StreamSent(m) == sent[m] # None

\* C8: the payload create() posts never asks for streaming: its stream field
\* is absent or false, whatever the caller passed.
C8_CreateNeverStreams ==
    \A m \in Modes :
        CreateSent(m) => ("stream" \notin DOMAIN posted[m][1] \/ posted[m][1]["stream"] = FALSE)

\* A message as it is sent: the keys the caller gave a value, with that value
\* (a key passed as None is an unset one).
MessageAsGiven(pm, cm) ==
    /\ DOMAIN pm = {k \in DOMAIN cm : cm[k] # None}
    /\ \A k \in DOMAIN pm : pm[k] = cm[k][1]

\* Payload p carries field f exactly as the caller passed it: absent when
\* the caller left it unset (or passed None), the caller's value otherwise.
AsGiven(p, f) ==
    IF ~Given(kwargs, f) THEN f \notin DOMAIN p
    ELSE /\ f \in DOMAIN p
         /\ IF f = "messages"
            THEN /\ Len(p[f]) = Len(kwargs[f][1])
                 /\ \A i \in 1..Len(p[f]) : MessageAsGiven(p[f][i], kwargs[f][1][i])
            ELSE p[f] = kwargs[f][1]

\* C9 as claimed: in every payload create() or stream() sends, each optional
\* field the caller left unset is absent and each field the caller set has
\* the caller's value.
C9_UnsetAbsentSetAsGiven ==
    \A m \in Modes :
        /\ CreateSent(m) => \A f \in RequestFields : AsGiven(posted[m][1], f)
        /\ StreamSent(m) => \A f \in RequestFields : AsGiven(sent[m][1], f)

\* C9 as amended: in every payload create() or stream() sends, each field
\* other than stream that the caller left unset is absent and each one the
\* caller set has the caller's value; the payload of stream() always has
\* stream = true, whatever the caller passed for it.
C9_UnsetAbsentSetAsGivenButStream ==
    \A m \in Modes :
        /\ CreateSent(m) =>
              \A f \in RequestFields \ {"stream"} : AsGiven(posted[m][1], f)
        /\ StreamSent(m) =>
              /\ \A f \in RequestFields \ {"stream"} : AsGiven(sent[m][1], f)
              /\ "stream" \in DOMAIN sent[m][1] /\ sent[m][1]["stream"] = TRUE

C9_Witness ==
    /\ CreateSent("sync") /\ StreamSent("sync")
    /\ Given(kwargs, "temperature")
    /\ "n" \in DOMAIN kwargs /\ kwargs["n"] = None
    /\ "user" \notin DOMAIN kwargs
    /\ Len(kwargs["messages"][1]) = 2
    /\ DOMAIN sent["sync"][1] = {"model", "messages", "temperature", "stream"}

\* ------------------------------------------------------------------ C11

\* C11: when the caller abandons the iteration of a stream after some event,
\* the connection of that stream() call is closed: no stream stays abandoned
\* with its connection open for ever.
C11_AbandonedStreamIsClosed ==
    \A m \in Modes : (pc[m] = "abandoned") ~> (conn[m] = "closed")

\* ------------------------------------------------------------------ C12

\* C12: every connection post_stream opened is released in the end on each way
\* the stream finishes by itself: the sentinel (with lines left unread), the
\* end of the lines, a non-2xx status, an error of the line source and a
\* chunk that fails validation.
C12_ReleasedOnEveryEnd ==
    \A m \in Modes : (pc[m] = "done" /\ conn[m] # "none") ~> (conn[m] = "closed")

\* The blocking stream stopped at the sentinel with a line left unread, and
\* its connection is closed.
C12_Witness ==
    /\ SentinelRead("sync")
    /\ cursor["sync"] < Len(lines)
    /\ pc["sync"] = "done"
    /\ conn["sync"] = "closed"

\* ------------------------------------------------------------------ C13

\* A non-empty token is given by the argument or by the environment.
Resolvable == Truthy(args.api_key) \/ Truthy(environ)

\* The token the claim names: the argument's, else the environment's.
ClaimedToken == IF Truthy(args.api_key) THEN args.api_key[1] ELSE environ[1]

NoRequest(m) ==
    requests[m].get = <<>> /\ requests[m].post_json = <<>> /\ requests[m].post_stream = <<>>

\* C13: constructing a client without a non-empty token from the argument or
\* from APERTUS_API_KEY fails with a configuration error, with no HTTP client
\* created and no request issued; with a token from either, construction
\* succeeds and the client and its requests carry "Bearer <token>".
C13_KeyRequiredAtConstruction ==
    \A m \in Modes : http[m].state # "none" =>
        IF ~Resolvable
        THEN /\ http[m].state = "ValueError"
             /\ http[m].client = None
             /\ NoRequest(m)
        ELSE /\ http[m].state = "ready"
             /\ http[m].client # None
             /\ http[m].client[1].headers["Authorization"] = <<"Bearer", "sp">> \o ClaimedToken
             /\ \A i \in 1..Len(requests[m].get) :
                    requests[m].get[i].headers["Authorization"] = <<"Bearer", "sp">> \o ClaimedToken

\* Both constructors were called with an empty key and only an empty
\* APERTUS_API_KEY, and failed.
C13_Witness ==
    /\ args.api_key = Some(<<>>)
    /\ environ = Some(<<>>)
    /\ \A m \in Modes : http[m].state = "ValueError"

\* ------------------------------------------------------------------ C14

\* The three ways a stream ends.
EndedBySentinel(m) == outcome[m] = CleanEnd /\ SentinelRead(m)

EndedByExhaustion(m) ==
    /\ outcome[m] = CleanEnd
    /\ ~SentinelRead(m)
    /\ cursor[m] = Len(lines)
    /\ ending = "eof"

EndedByError(m) == outcome[m].kind \in {"TransportError", "ValidationError", "ApertusAPIError"}

ExactlyOne(a, b, c) == (a /\ ~b /\ ~c) \/ (~a /\ b /\ ~c) \/ (~a /\ ~b /\ c)

\* C14: a stream() call ends once, by exactly one of the sentinel, the end of
\* the lines and an error; an outcome is reported only when it has ended, and
\* from then on no event is emitted, no line is read and the outcome reported
\* does not change.
C14_EndsExactlyOnce ==
    /\ [](\A m \in Modes :
            /\ (pc[m] = "done") <=> (outcome[m].kind # "none")
            /\ pc[m] = "done" =>
                    ExactlyOne(EndedBySentinel(m), EndedByExhaustion(m), EndedByError(m)))
    /\ [][\A m \in Modes : pc[m] = "done" =>
            /\ pc'[m] = "done"
            /\ events'[m] = events[m]
            /\ cursor'[m] = cursor[m]
            /\ outcome'[m] = outcome[m]]_vars

\* The blocking stream ended with a validation error after an event and
\* with a line left unread, its connection has been released since, and the
\* other stream has ended too.
C14_Witness ==
    /\ pc["sync"] = "done"
    /\ outcome["sync"] = ValidationError
    /\ Len(events["sync"]) >= 1
    /\ cursor["sync"] < Len(lines)
    /\ conn["sync"] = "closed"
    /\ pc["async"] = "done"

\* ------------------------------------------------------------------ C15

\* The fields of the response body, a JSON object.
ListBody == JsonLoads(body)[1].fields

\* The body has object "list" and a data whose entries all have an id.
IsListOfModels ==
    /\ "object" \in DOMAIN ListBody
    /\ ListBody.object = <<"list">>
    /\ \A i \in 1..Len(ListBody.data) : "id" \in DOMAIN ListBody.data[i]

\* The body has no object "list".
IsNoList == "object" \notin DOMAIN ListBody \/ ListBody.object # <<"list">>

AllWhitespace(t) == \A i \in 1..Len(t) : t[i] = WS

\* An empty line, a line of whitespace only, or a line of the prefix alone
\* with nothing but whitespace around it.
IsBlankLine(line) ==
    \/ AllWhitespace(line)
    \/ \E i \in 1..Len(line) :
            /\ line[i] = "data:"
            /\ \A j \in (1..Len(line)) \ {i} : line[j] = WS

\* The generator of surface m pulls line number cursor[m] + 1 in this step.
Pulls(m) ==
    /\ pc[m] = "running"
    /\ conn[m] = "open"
    /\ cursor[m] < Len(lines)
    /\ cursor'[m] = cursor[m] + 1

\* C16: an empty line, a whitespace-only line and a line of the data: prefix
\* alone (with or without whitespace around it) are skipped wherever they
\* stand: no event, no error, no end of the stream, and the next line is
\* read next.
C16_BlankLinesSkipped ==
    [][\A m \in Modes : (Pulls(m) /\ IsBlankLine(lines[cursor[m] + 1])) =>
            /\ events'[m] = events[m]
            /\ outcome'[m] = NoOutcome
            /\ pc'[m] = "running"
            /\ conn'[m] = "open"]_vars

\* The blocking stream read a line of the prefix between whitespace and
\* then emitted the event of the frame after it.
C16_Witness ==
    /\ Len(lines) = 2
    /\ lines[1] = <<"sp", "data:", "sp">>
    /\ cursor["sync"] = 2
    /\ Len(events["sync"]) = 1
    /\ outcome["sync"] = NoOutcome

\* ------------------------------------------------------------------ C18

\* The content of the first choice's delta, None when the chunk has no
\* choice, the first choice no delta or the delta no content.
FirstChoiceContent(chunk) ==
    IF Len(chunk.choices) = 0 THEN None
    ELSE IF chunk.choices[1].delta = None THEN None
    ELSE chunk.choices[1].delta[1].content

\* C18: every event has choice_index 0, raw the whole chunk its frame decoded
\* to, and delta the content of the first choice's delta when that is
\* present (the empty text included), none otherwise; the content of a later
\* choice is never the delta.
C18_FirstChoiceProjected ==
    \A m \in Modes :
        LET F == ValidFrames(cursor[m])
        IN  /\ Len(events[m]) = Len(F)
            /\ \A k \in 1..Len(events[m]) :
                    /\ events[m][k].choice_index = 0
                    /\ events[m][k].raw = FrameChunk(F[k])
                    /\ events[m][k].delta = FirstChoiceContent(FrameChunk(F[k]))

\* The blocking stream emitted the event of a chunk with two choices and
\* then the event of a chunk whose content is the empty text.
C18_Witness ==
    /\ Len(events["sync"]) = 2
    /\ Len(events["sync"][1].raw.choices) = 2
    /\ events["sync"][1].delta = Some(<<"a">>)
    /\ events["sync"][2].delta = Some(<<>>)

\* ------------------------------------------------------------------ C19

\* The line pulled in this step is a valid frame whose chunk has no choice.
PullsEmptyChoices(m) ==
    /\ Pulls(m)
    /\ IsValidFrame(lines[cursor[m] + 1])
    /\ FrameChunk(lines[cursor[m] + 1]).choices = <<>>

\* C19, as claimed: a frame whose chunk has an empty choices list is dropped:
\* no event for it, no error, and the next line is read next.
C19_EmptyChoicesDropped ==
    [][\A m \in Modes : PullsEmptyChoices(m) =>
            /\ events'[m] = events[m]
            /\ outcome'[m] = NoOutcome
            /\ pc'[m] = "running"]_vars

\* C19, amended: a frame whose chunk has an empty choices list is no error
\* and does not end the stream, but it is not dropped: one event is emitted
\* for it, with no delta, choice_index 0 and the chunk as raw.
C19_EmptyChoicesEmitNoDelta ==
    [][\A m \in Modes : PullsEmptyChoices(m) =>
            /\ events'[m] = Append(events[m],
                                   [delta |-> None, choice_index |-> 0,
                                    raw |-> FrameChunk(lines[cursor[m] + 1])])
            /\ outcome'[m] = NoOutcome
            /\ pc'[m] = "suspended"]_vars

\* The blocking stream emitted an event without delta for a chunk without
\* choices and then the event of the next frame.
C19_Witness ==
    /\ Len(events["sync"]) = 2
    /\ events["sync"][1].raw.choices = <<>>
    /\ events["sync"][1].delta = None
    /\ events["sync"][2].delta # None

\* ------------------------------------------------------------------ C17

\* What a call that issued its request ended with, r, follows the status:
\* no ApertusAPIError on 2xx, the ApertusAPIError of the status and nothing
\* returned otherwise.
FollowsStatus(r) ==
    IF Success THEN r.kind # "ApertusAPIError"
    ELSE r.kind = "ApertusAPIError" /\ r.status_code = status

\* C17: for get, post_json and post_stream a response is a success exactly
\* when its status is in 200..299: any other status raises ApertusAPIError
\* with that status and hands no body and no line to the caller, a 2xx status
\* raises no ApertusAPIError, and the request is issued once only.
C17_SuccessIsExactly2xx ==
    \A m \in Modes :
        /\ ret[m].list.kind # "none" =>
                FollowsStatus(ret[m].list) /\ Len(requests[m].get) = 1
        /\ ret[m].create.kind # "none" =>
                FollowsStatus(ret[m].create) /\ Len(requests[m].post_json) = 1
        /\ sent[m] # None =>
                /\ Len(requests[m].post_stream) = 1
                /\ Success => outcome[m].kind # "ApertusAPIError" /\ conn[m] # "none"
                /\ ~Success =>
                        /\ pc[m] = "done"
                        /\ FollowsStatus(outcome[m])
                        /\ events[m] = <<>>
                        /\ cursor[m] = 0

\* A redirect status: the three calls of both surfaces have failed with it.
C17_Witness ==
    /\ status = 302
    /\ \A m \in Modes :
            /\ ret[m].list.kind = "ApertusAPIError"
            /\ ret[m].create.kind = "ApertusAPIError"
            /\ outcome[m].kind = "ApertusAPIError"

\* ------------------------------------------------------------------ C20

\* The payload of the line is a JSON object that lacks a field required of a
\* chunk: choices, or the index of a choice.
LacksChunkField(line) ==
    LET v == JsonLoads(FramePayload(line))
    IN  /\ v # None
        /\ v[1].isObject
        /\ \/ "choices" \notin DOMAIN v[1].fields
           \/ \E i \in 1..Len(v[1].fields.choices) : ~v[1].fields.choices[i].hasIndex

\* The response body, a JSON object.
ShapeBody == JsonLoads(body)[1].fields

\* The body lacks a field required of a completion.
LacksCompletionField == ~(CompletionRequired \subseteq DOMAIN ShapeBody)

\* The body lacks a field required of a model list: object, data, or the id
\* of an entry.
LacksListField ==
    \/ ~({"object", "data"} \subseteq DOMAIN ShapeBody)
    \/ \E i \in 1..Len(ShapeBody.data) : "id" \notin DOMAIN ShapeBody.data[i]

\* C20: a streamed line whose payload is JSON but lacks a field required of a
\* chunk makes stream() raise a validation error at that line, after exactly
\* the events of the valid frames before it, and nothing is emitted or read
\* afterwards; create() and models.list() raise a validation error, and
\* return nothing, when the body lacks a required field.
C20_UnexpectedShapeSurfaced ==
    /\ [](\A m \in Modes :
            /\ (ret[m].create.kind # "none" /\ LacksCompletionField) =>
                    ret[m].create = ValidationError
            /\ (ret[m].list.kind # "none" /\ LacksListField) =>
                    ret[m].list = ValidationError)
    /\ [][\A m \in Modes : (Pulls(m) /\ LacksChunkField(lines[cursor[m] + 1])) =>
            /\ EventsAreFramesOf(m, cursor[m])
            /\ events'[m] = events[m]
            /\ outcome'[m] = ValidationError
            /\ pc'[m] = "done"]_vars
    /\ [][\A m \in Modes : outcome[m] = ValidationError =>
            /\ events'[m] = events[m]
            /\ cursor'[m] = cursor[m]
            /\ outcome'[m] = outcome[m]
            /\ pc'[m] = "done"]_vars

\* On a body with an id only and a valid frame followed by an object without
\* choices: the blocking stream raised at the second line after one event,
\* with a line read no further, and create() and models.list() raised.
C20_Witness ==
    /\ body = <<"obj">>
    /\ Len(lines) = 2
    /\ IsValidFrame(lines[1])
    /\ lines[2] = <<"data:", "obj">>
    /\ outcome["sync"] = ValidationError
    /\ Len(events["sync"]) = 1
    /\ ret["sync"].create = ValidationError
    /\ ret["sync"].list = ValidationError

\* ------------------------------------------------------------------ C21

\* The caller has asked surface m for more elements than it was handed: a
\* request for the next element is outstanding.
Outstanding(m) == asked[m] > Len(events[m])

\* C21: the stream is pulled, with no reading ahead: no element is handed
\* over that was not asked for; a line is pulled only while a request for
\* the next element is outstanding and is served, one line at a time; so
\* after an event no line is read until the caller asks again.
C21_PullBased ==
    /\ [](\A m \in Modes : Len(events[m]) <= asked[m])
    /\ [][\A m \in Modes : cursor'[m] # cursor[m] =>
            /\ cursor'[m] = cursor[m] + 1
            /\ pc[m] = "running"
            /\ Outstanding(m)]_vars

\* The blocking stream has handed over the event of the first of two lines
\* and stands still: the second line is unread.
C21_Witness ==
    /\ Len(lines) = 2
    /\ pc["sync"] = "suspended"
    /\ Len(events["sync"]) = 1
    /\ asked["sync"] = 1
    /\ cursor["sync"] = 1

\* ------------------------------------------------------------------ C22

\* What one stream of surface m yields and ends with when it is consumed
\* alone to its end on the lines ls: the run from line i on, ev being the
\* events so far.
RECURSIVE RunAlone(_, _, _, _)
RunAlone(m, ls, i, ev) ==
    IF i > Len(ls) THEN [events |-> ev, outcome |-> SourceEnd(m, ending), cursor |-> Len(ls)]
    ELSE LET d == Decode(m, ls[i])
         IN  IF ~TransportYields(m, ls[i]) \/ d.act = "skip" THEN RunAlone(m, ls, i + 1, ev)
             ELSE IF d.act = "emit" THEN RunAlone(m, ls, i + 1, Append(ev, d.ev[1]))
             ELSE IF d.act = "stop" THEN [events |-> ev, outcome |-> CleanEnd, cursor |-> i]
             ELSE [events |-> ev, outcome |-> ValidationError, cursor |-> i]

IsPrefix(a, b) == Len(a) <= Len(b) /\ SubSeq(b, 1, Len(a)) = a

\* A generator with events ev, at ending state p with outcome o after n
\* lines, is where the stream consumed alone on ls is or was: its events
\* begin that stream's events, and once it has ended it has all of them, the
\* same outcome and the same number of lines read.
AsAlone(m, ls, p, ev, o, n) ==
    LET alone == RunAlone(m, ls, 1, <<>>)
    IN  /\ IsPrefix(ev, alone.events)
        /\ n <= alone.cursor
        /\ p = "done" => (ev = alone.events /\ o = alone.outcome /\ n = alone.cursor)

\* C22: two stream() calls on one client share no decoder state: in every
\* interleaving of their element requests each yields the events, and ends
\* as, it would when consumed alone on the lines of its own response; no
\* line of one response is decoded or emitted by the other stream.
C22_StreamsIndependent ==
    \A m \in Modes :
        /\ AsAlone(m, lines, pc[m], events[m], outcome[m], cursor[m])
        /\ AsAlone(m, lines2, twin[m].pc, twin[m].events, twin[m].outcome, twin[m].cursor)

\* The two non-blocking streams stand at their yields with one event each,
\* from responses whose first events differ; the blocking ones have ended.
C22_Witness ==
    /\ pc["async"] = "suspended"
    /\ twin["async"].pc = "suspended"
    /\ Len(events["async"]) = 1
    /\ Len(twin["async"].events) = 1
    /\ events["async"][1] # twin["async"].events[1]
    /\ pc["sync"] = "done"
    /\ twin["sync"].pc = "done"
    /\ Len(events["sync"]) = 2
    /\ Len(twin["sync"].events) = 1

\* ------------------------------------------------------------------ C23

\* The caller passed the required fields of a chat request.
RequestOk == Given(kwargs, "model") /\ Given(kwargs, "messages")

\* C23: stream() is lazy: until the caller asks for the first element
\* nothing is validated, no request is issued and no connection is opened;
\* an invalid request is reported as a validation error at the first
\* request for an element, with no HTTP request issued, and a non-2xx status
\* as ApertusAPIError at the first request for an element.
C23_LazyFromFirstStep ==
    \A m \in Modes :
        /\ asked[m] = 0 =>
                /\ pc[m] \in {"idle", "created"}
                /\ outcome[m] = NoOutcome
                /\ requests[m].post_stream = <<>>
                /\ sent[m] = None
                /\ conn[m] = "none"
        /\ (asked[m] >= 1 /\ pc[m] # "running" /\ ~RequestOk) =>
                /\ pc[m] = "done"
                /\ outcome[m] = ValidationError
                /\ asked[m] = 1
                /\ requests[m].post_stream = <<>>
                /\ conn[m] = "none"
        /\ (asked[m] >= 1 /\ pc[m] # "running" /\ RequestOk /\ ~Success) =>
                /\ pc[m] = "done"
                /\ outcome[m].kind = "ApertusAPIError"
                /\ asked[m] = 1
                /\ Len(requests[m].post_stream) = 1
                /\ events[m] = <<>>

\* With no model passed: the blocking generator raised the validation
\* error at its first request, and the other one, created and never asked,
\* has done nothing.
C23_Witness ==
    /\ ~Given(kwargs, "model")
    /\ outcome["sync"] = ValidationError
    /\ asked["sync"] = 1
    /\ pc["async"] = "created"
    /\ requests["async"].post_stream = <<>>

====
